---- MODULE Spec2Model ----
(***************************************************************************)
(* Reader and writer of Gaussian input files (ase/io/gaussian.py):         *)
(* write_gaussian_in assembles the text of an input file, and              *)
(* GaussianConfiguration.parse_gaussian_input reads one line by line.      *)
(* Text is modelled as TLA+ strings, character by character; a line keeps  *)
(* its trailing newline, as the lines of a Python file object do.          *)
(***************************************************************************)
EXTENDS Integers, Sequences, FiniteSets, TLC

(***************************************************************************)
(* Python's str methods, on strings.                                       *)
(***************************************************************************)
\* s[i], or the empty string outside s
Ch(s, i) == IF 1 <= i /\ i <= Len(s) THEN SubSeq(s, i, i) ELSE ""

From(s, i) == SubSeq(s, i, Len(s))

\* F(v): the value v under the name that F gives it, as LET names it
Bind(v, F(_)) == F(v)

\* the set of the characters of s
Chars(s) == {SubSeq(s, i, i) : i \in 1..Len(s)}

UpperCase == "ABCDEFGHIJKLMNOPQRSTUVWXYZ"

LowerCase == "abcdefghijklmnopqrstuvwxyz"

Digits == "0123456789"

\* the character classes of the regular expressions: \s, \d, [A-Za-z], [\w-]
WhiteSpace == {" ", "\t", "\n", "\r"}

DigitChars == Chars(Digits)

Letters == Chars(UpperCase) \cup Chars(LowerCase)

WordChars == Letters \cup DigitChars \cup {"_", "-"}

Separators == {",", "/"} \cup WhiteSpace

ToLower == [c \in Chars(UpperCase) |->
              Ch(LowerCase, CHOOSE i \in 1..Len(UpperCase) : Ch(UpperCase, i) = c)]

ToUpper == [c \in Chars(LowerCase) |->
              Ch(UpperCase, CHOOSE i \in 1..Len(LowerCase) : Ch(LowerCase, i) = c)]

LowerChar(c) == IF c \in DOMAIN ToLower THEN ToLower[c] ELSE c

UpperChar(c) == IF c \in DOMAIN ToUpper THEN ToUpper[c] ELSE c

\* s.lower() and s.upper()
RECURSIVE Lower(_)
Lower(s) == IF s = "" THEN "" ELSE LowerChar(Ch(s, 1)) \o Lower(From(s, 2))

RECURSIVE Upper(_)
Upper(s) == IF s = "" THEN "" ELSE UpperChar(Ch(s, 1)) \o Upper(From(s, 2))

\* c in s, for a character c
HasChar(s, c) == \E i \in 1..Len(s) : Ch(s, i) = c

\* sub in s
Contains(s, sub) ==
    \E i \in 1..(Len(s) - Len(sub) + 1) : SubSeq(s, i, i + Len(sub) - 1) = sub

StartsWith(s, p) == Len(s) >= Len(p) /\ SubSeq(s, 1, Len(p)) = p

\* the length of the longest run of characters of s, from position i on, that
\* are all in the set chars (RunIn) or all not in it (RunNotIn): what a greedy
\* character class of a regular expression takes
RECURSIVE RunIn(_, _, _)
RunIn(s, i, chars) ==
    IF i <= Len(s) /\ SubSeq(s, i, i) \in chars THEN 1 + RunIn(s, i + 1, chars) ELSE 0

RECURSIVE RunNotIn(_, _, _)
RunNotIn(s, i, chars) ==
    IF i <= Len(s) /\ SubSeq(s, i, i) \notin chars THEN 1 + RunNotIn(s, i + 1, chars) ELSE 0

\* s.lstrip(chars), s.rstrip(chars), s.strip(chars), for the set of the
\* characters of chars
RECURSIVE LStripChars(_, _)
LStripChars(s, chars) ==
    IF s # "" /\ Ch(s, 1) \in chars THEN LStripChars(From(s, 2), chars) ELSE s

RECURSIVE RStripChars(_, _)
RStripChars(s, chars) ==
    IF s # "" /\ Ch(s, Len(s)) \in chars
    THEN RStripChars(SubSeq(s, 1, Len(s) - 1), chars)
    ELSE s

StripChars(s, chars) == RStripChars(LStripChars(s, chars), chars)

Strip(s) == StripChars(s, WhiteSpace)

\* s.split(): the maximal runs of characters that are not white space
RECURSIVE Split(_)
Split(s) ==
    LET t == LStripChars(s, WhiteSpace)
        n == RunNotIn(t, 1, WhiteSpace)
    IN  IF t = "" THEN <<>> ELSE <<SubSeq(t, 1, n)>> \o Split(From(t, n + 1))

\* s.split(c)[0]
Before(s, c) == SubSeq(s, 1, RunNotIn(s, 1, {c}))

\* s.split(c), for a character c
RECURSIVE SplitOn(_, _)
SplitOn(s, c) ==
    LET n == RunNotIn(s, 1, {c})
    IN  IF n = Len(s) THEN <<s>> ELSE <<SubSeq(s, 1, n)>> \o SplitOn(From(s, n + 2), c)

\* s.replace(c, r), for a character c
RECURSIVE Replace(_, _, _)
Replace(s, c, r) ==
    IF s = "" THEN ""
    ELSE (IF Ch(s, 1) = c THEN r ELSE Ch(s, 1)) \o Replace(From(s, 2), c, r)

\* sep.join(list)
RECURSIVE Join(_, _)
Join(sep, list) ==
    IF list = <<>> THEN ""
    ELSE IF Len(list) = 1 THEN list[1]
    ELSE list[1] \o sep \o Join(sep, Tail(list))

\* s.isnumeric(): not empty and digits only
IsNumeric(s) == s # "" /\ \A i \in 1..Len(s) : Ch(s, i) \in DigitChars

DigitValue(c) == CHOOSE n \in 0..9 : Ch(Digits, n + 1) = c

RECURSIVE DigitsValue(_)
DigitsValue(s) ==
    IF s = "" THEN 0
    ELSE 10 * DigitsValue(SubSeq(s, 1, Len(s) - 1)) + DigitValue(Ch(s, Len(s)))

(***************************************************************************)
(* Python values: None, a str, an int, a float (in tenths) and a list.     *)
(* A dict is a function from its keys.                                     *)
(***************************************************************************)
None == [t |-> "none"]

Str(s) == [t |-> "str", s |-> s]

PyInt(n) == [t |-> "int", n |-> n]

PyList(l) == [t |-> "list", l |-> l]

EmptyDict == [k \in {} |-> None]

\* d[k] = v
Put(d, k, v) == [x \in DOMAIN d \cup {k} |-> IF x = k THEN v ELSE d[x]]

\* d.update(e)
Update(d, e) == [x \in DOMAIN d \cup DOMAIN e |-> IF x \in DOMAIN e THEN e[x] ELSE d[x]]

\* d.pop(k, None), for the dict that is left
Without(d, k) == [x \in DOMAIN d \ {k} |-> d[x]]

(***************************************************************************)
(* The regular expressions of the reader.  Each operator gives what        *)
(* re.match gives on the line: whether it matches, and the groups.         *)
(***************************************************************************)
\* _re_link0 = ^\s*%([^\=\)\(!]+)=?([^\=\)\(!]+)?(!.+)?
re_link0(line) ==
    LET i  == 1 + RunIn(line, 1, WhiteSpace)
        n1 == RunNotIn(line, i + 1, {"=", ")", "(", "!"})
        j  == i + 1 + n1
        k  == IF Ch(line, j) = "=" THEN j + 1 ELSE j
        n2 == RunNotIn(line, k, {"=", ")", "(", "!"})
    IN  IF Ch(line, i) = "%" /\ n1 >= 1
        THEN [matched |-> TRUE,
              group1 |-> SubSeq(line, i + 1, i + n1),
              group2 |-> IF n2 >= 1 THEN Str(SubSeq(line, k, k + n2 - 1)) ELSE None]
        ELSE [matched |-> FALSE]

\* _re_output_type = ^\s*#\s*([NPTnpt]?)\s*
re_output_type(line) ==
    LET i == 1 + RunIn(line, 1, WhiteSpace)
        j == i + 1 + RunIn(line, i + 1, WhiteSpace)
        t == IF Ch(line, j) \in Chars("NPTnpt") THEN Ch(line, j) ELSE ""
        e == j + Len(t) + RunIn(line, j + Len(t), WhiteSpace)
    IN  IF Ch(line, i) = "#"
        THEN [matched |-> TRUE, group0 |-> SubSeq(line, 1, e - 1), group1 |-> t]
        ELSE [matched |-> FALSE]

\* _re_chgmult = ^\s*[+-]?\d+(?:,\s*|\s+)[+-]?\d+\s*$
re_chgmult(line) ==
    LET i  == 1 + RunIn(line, 1, WhiteSpace)
        a  == IF Ch(line, i) \in {"+", "-"} THEN i + 1 ELSE i
        d1 == RunIn(line, a, DigitChars)
        b  == a + d1
        w  == RunIn(line, IF Ch(line, b) = "," THEN b + 1 ELSE b, WhiteSpace)
        c  == IF Ch(line, b) = "," THEN b + 1 + w ELSE b + w
        f  == IF Ch(line, c) \in {"+", "-"} THEN c + 1 ELSE c
        d2 == RunIn(line, f, DigitChars)
        e  == f + d2 + RunIn(line, f + d2, WhiteSpace)
    IN  IF d1 >= 1 /\ (Ch(line, b) = "," \/ w >= 1) /\ d2 >= 1 /\ e = Len(line) + 1
        THEN [matched |-> TRUE, group0 |-> line]
        ELSE [matched |-> FALSE]

\* _re_method_basis = \s*([\w-]+)\s*\/([^/=!]+)([\/]([^!]+))?\s*(!.+)?
re_method_basis(line) ==
    LET i  == 1 + RunIn(line, 1, WhiteSpace)
        n1 == RunIn(line, i, WordChars)
        j  == i + n1 + RunIn(line, i + n1, WhiteSpace)
        n2 == RunNotIn(line, j + 1, {"/", "=", "!"})
        k  == j + 1 + n2
        n4 == IF Ch(line, k) = "/" THEN RunNotIn(line, k + 1, {"!"}) ELSE 0
        m  == IF n4 >= 1 THEN k + 1 + n4 ELSE k
        o  == m + RunIn(line, m, WhiteSpace)
        n5 == IF Ch(line, o) = "!" THEN RunNotIn(line, o + 1, {"\n"}) ELSE 0
    IN  IF n1 >= 1 /\ Ch(line, j) = "/" /\ n2 >= 1
        THEN [matched |-> TRUE,
              group1 |-> SubSeq(line, i, i + n1 - 1),
              group2 |-> SubSeq(line, j + 1, j + n2),
              group4 |-> IF n4 >= 1 THEN Str(SubSeq(line, k + 1, k + n4)) ELSE None,
              group5 |-> IF n5 >= 1 THEN Str(SubSeq(line, o, o + n5)) ELSE None]
        ELSE [matched |-> FALSE]

(***************************************************************************)
(* _get_route_params: the keywords and options of one route line.          *)
(***************************************************************************)
\* re.finditer(r'\(([^\)]+)\)', line): the matches from position i on, each
\* with the places of its two parentheses
RECURSIVE ParenMatches(_, _)
ParenMatches(line, i) ==
    LET n == RunNotIn(line, i + 1, {")"})
    IN  IF i > Len(line) THEN <<>>
        ELSE IF Ch(line, i) = "(" /\ n >= 1 /\ Ch(line, i + 1 + n) = ")"
        THEN <<[open |-> i, close |-> i + 1 + n]>> \o ParenMatches(line, i + n + 2)
        ELSE ParenMatches(line, i + 1)

\* the last match of re.finditer(r'[^\,/\s]+', line[:e]) that is not '=':
\* where it starts, or 0 when there is none
RECURSIVE LastKeyword(_, _)
LastKeyword(line, e) ==
    LET sep  == Separators
        toks == {i \in 1..e : Ch(line, i) \notin sep
                              /\ (i = 1 \/ Ch(line, i - 1) \in sep)}
        last == CHOOSE i \in toks : \A j \in toks : j <= i
        n    == RunNotIn(SubSeq(line, 1, e), last, sep)
    IN  IF toks = {} THEN 0
        ELSE IF SubSeq(line, last, last + n - 1) = "=" THEN LastKeyword(line, last - 1)
        ELSE last

\* the keywords with options in parentheses, and the line without them; the
\* matches are taken last to first, as the reversed index_ranges are, and the
\* dict is filled first to last
RECURSIVE ParenParams(_, _, _)
ParenParams(line, matches, params) ==
    LET m    == Head(matches)
        kw   == LastKeyword(line, m.open - 1)
        word == SubSeq(line, kw, kw + RunNotIn(SubSeq(line, 1, m.open - 1), kw,
                                               Separators) - 1)
    IN  IF matches = <<>> THEN [ok |-> TRUE, params |-> params]
        ELSE IF kw = 0 THEN [ok |-> FALSE]
        ELSE ParenParams(line, Tail(matches),
                 Put(params, Lower(StripChars(word, {" ", "="})),
                     Str(SubSeq(line, m.open + 1, m.close - 1))))

\* index_ranges: for each match, from the start of its keyword to the place
\* after its closing parenthesis
RECURSIVE IndexRanges(_, _)
IndexRanges(line, matches) ==
    IF matches = <<>> THEN <<>>
    ELSE <<[start |-> LastKeyword(line, Head(matches).open - 1),
            stop |-> Head(matches).close]>> \o IndexRanges(line, Tail(matches))

\* line = line[0: start:] + line[stop + 1::], for the ranges last to first
RECURSIVE CutRanges(_, _)
CutRanges(line, ranges) ==
    LET r == ranges[Len(ranges)]
    IN  IF ranges = <<>> THEN line
        ELSE CutRanges(SubSeq(line, 1, r.start - 1) \o From(line, r.stop + 2),
                       SubSeq(ranges, 1, Len(ranges) - 1))

\* re.sub(r'\s*=\s*', '=', s)
RECURSIVE SubEquals(_)
SubEquals(s) ==
    LET w == RunIn(s, 1, WhiteSpace)
    IN  IF s = "" THEN ""
        ELSE IF Ch(s, w + 1) = "="
        THEN "=" \o SubEquals(From(s, w + 2 + RunIn(s, w + 2, WhiteSpace)))
        ELSE Ch(s, 1) \o SubEquals(From(s, 2))

\* [x for x in re.split(r'[\s,\/]', s) if x != '']
RECURSIVE SplitKeywords(_)
SplitKeywords(s) ==
    LET sep == Separators
        t   == LStripChars(s, sep)
        n   == RunNotIn(t, 1, sep)
    IN  IF t = "" THEN <<>> ELSE <<SubSeq(t, 1, n)>> \o SplitKeywords(From(t, n + 1))

\* the keywords with an equals sign, and those without options
RECURSIVE PlainParams(_, _)
PlainParams(words, params) ==
    LET w == Head(words)
        n == RunNotIn(w, 1, {"="})
    IN  IF words = <<>> THEN params
        ELSE IF HasChar(w, "=")
        THEN PlainParams(Tail(words),
                         Put(params, Lower(SubSeq(w, 1, n)), Str(From(w, n + 2))))
        ELSE PlainParams(Tail(words), Put(params, Lower(w), None))

get_route_params(line0) ==
    LET line    == Before(StripChars(line0, {" ", "#"}), "!")
        matches == ParenMatches(line, 1)
        first   == ParenParams(line, matches, EmptyDict)
        rest    == SplitKeywords(SubEquals(CutRanges(line, IndexRanges(line, matches))))
    IN  IF first.ok
        THEN [ok |-> TRUE, params |-> PlainParams(rest, first.params)]
        ELSE [ok |-> FALSE]

ase_gen_comment == "! ASE formatted method and basis"

\* _save_route_params: the parameters after the line, or no dict when
\* _get_route_params raises IndexError
save_route_params(line, parameters) ==
    Bind(re_method_basis(line), LAMBDA mb :
        IF mb.matched /\ mb.group5 = Str(ase_gen_comment)
        THEN [ok |-> TRUE,
              params |->
                Bind(Put(Put(parameters, "method", Str(Strip(mb.group1))),
                         "basis", Str(Strip(mb.group2))), LAMBDA p2 :
                    IF mb.group4 # None
                    THEN Put(p2, "fitting_basis", Str(Strip(mb.group4.s)))
                    ELSE p2)]
        ELSE Bind(get_route_params(line), LAMBDA rp :
                IF rp.ok THEN [ok |-> TRUE, params |-> Update(parameters, rp.params)]
                ELSE [ok |-> FALSE]))

\* _save_link0_param
save_link0_param(link0_match, parameters) ==
    LET value == IF link0_match.group2 # None
                 THEN Str(Strip(link0_match.group2.s))
                 ELSE None
    IN  Put(parameters, Strip(Lower(link0_match.group1)), value)

(***************************************************************************)
(* Numbers.  A float is kept exactly, as mantissa / 10^places with no      *)
(* trailing zero; the spellings with an exponent, inf and nan are left out *)
(* of the inputs.                                                          *)
(***************************************************************************)
RECURSIVE Normal(_, _)
Normal(m, places) ==
    IF places > 0 /\ m % 10 = 0 THEN Normal(m \div 10, places - 1)
    ELSE [t |-> "float", m |-> m, places |-> places]

\* float(s): the value, or None for a ValueError
float(s0) ==
    LET s    == Strip(s0)
        a    == IF Ch(s, 1) \in {"+", "-"} THEN 2 ELSE 1
        d1   == RunIn(s, a, DigitChars)
        dot  == Ch(s, a + d1) = "."
        d2   == IF dot THEN RunIn(s, a + d1 + 1, DigitChars) ELSE 0
        e    == a + d1 + (IF dot THEN 1 + d2 ELSE 0)
        frac == RStripChars(SubSeq(s, a + d1 + 1, a + d1 + d2), {"0"})
        m    == DigitsValue(SubSeq(s, a, a + d1 - 1) \o frac)
    IN  IF d1 + d2 >= 1 /\ e = Len(s) + 1
        THEN Normal(IF Ch(s, 1) = "-" THEN 0 - m ELSE m, Len(frac))
        ELSE None

\* int(s), for a str: the value, or None for a ValueError
int(s0) ==
    LET s == Strip(s0)
        a == IF Ch(s, 1) \in {"+", "-"} THEN 2 ELSE 1
        d == RunIn(s, a, DigitChars)
        m == DigitsValue(SubSeq(s, a, a + d - 1))
    IN  IF d >= 1 /\ a + d = Len(s) + 1
        THEN PyInt(IF Ch(s, 1) = "-" THEN 0 - m ELSE m)
        ELSE None

(***************************************************************************)
(* The molecule specification.                                             *)
(***************************************************************************)
\* ase.data.chemical_symbols, from index 0
chemical_symbols ==
    <<"X", "H", "He", "Li", "Be", "B", "C", "N", "O", "F", "Ne", "Na", "Mg", "Al",
      "Si", "P", "S", "Cl", "Ar", "K", "Ca", "Sc", "Ti", "V", "Cr", "Mn", "Fe",
      "Co", "Ni", "Cu", "Zn", "Ga", "Ge", "As", "Se", "Br", "Kr", "Rb", "Sr", "Y",
      "Zr", "Nb", "Mo", "Tc", "Ru", "Rh", "Pd", "Ag", "Cd", "In", "Sn", "Sb", "Te",
      "I", "Xe", "Cs", "Ba", "La", "Ce", "Pr", "Nd", "Pm", "Sm", "Eu", "Gd", "Tb",
      "Dy", "Ho", "Er", "Tm", "Yb", "Lu", "Hf", "Ta", "W", "Re", "Os", "Ir", "Pt",
      "Au", "Hg", "Tl", "Pb", "Bi", "Po", "At", "Rn", "Fr", "Ra", "Ac", "Th", "Pa",
      "U", "Np", "Pu", "Am", "Cm", "Bk", "Cf", "Es", "Fm", "Md", "No", "Lr", "Rf",
      "Db", "Sg", "Bh", "Hs", "Mt", "Ds", "Rg", "Cn", "Nh", "Fl", "Mc", "Lv", "Ts",
      "Og">>

\* _convert_to_symbol, with _validate_symbol_string: the symbol, or the
\* exception raised: "IOError", or "Exception" for any other one (IndexError,
\* AttributeError, ValueError, KeyError), which no caller catches
convert_to_symbol(string) ==
    LET n == RunIn(string, 1, Letters)
    IN  IF HasChar(string, "-") THEN [exc |-> "IOError"]
        ELSE IF IsNumeric(string)
        THEN IF DigitsValue(string) < Len(chemical_symbols)
             THEN [exc |-> "", symbol |-> chemical_symbols[DigitsValue(string) + 1]]
             ELSE [exc |-> "Exception"]
        ELSE IF n >= 1 THEN [exc |-> "", symbol |-> SubSeq(string, 1, n)]
        ELSE [exc |-> "Exception"]

_nuclei_prop_array_names == <<"spin", "zeff", "qmom", "nmagm", "znuc", "radnuclear", "iso">>

\* line.replace(sub, ''), for a sub that is not empty
RECURSIVE Remove(_, _)
Remove(s, sub) ==
    IF s = "" THEN ""
    ELSE IF StartsWith(s, sub) THEN Remove(From(s, Len(sub) + 1), sub)
    ELSE Ch(s, 1) \o Remove(From(s, 2), sub)

\* the values of the nuclei properties of one line: int(v) for a numeric
\* str and float(v) otherwise; None stands for a property that cannot be
\* converted
NucleiValue(v) ==
    IF v = None THEN None
    ELSE IF IsNumeric(v.s) THEN PyInt(DigitsValue(v.s))
    ELSE float(v.s)

\* _save_nuclei_props: the line without the nuclei properties, the symbol,
\* the tokens and the nuclei properties with this line's added; or the
\* exception raised
save_nuclei_props(line0, nuclei_props) ==
    Bind(ParenMatches(line0, 1), LAMBDA ms :
    Bind(ms # <<>>, LAMBDA found :
    Bind(IF found
         THEN Remove(line0, SubSeq(line0, ms[1].open, ms[1].close))
         ELSE line0, LAMBDA line :
    Bind(Split(line), LAMBDA tokens :
    Bind(convert_to_symbol(tokens[1]), LAMBDA conv :
    Bind(get_route_params(SubSeq(line0, ms[1].open + 1, ms[1].close - 1)), LAMBDA rp :
    Bind(IF found
         THEN [k \in DOMAIN rp.params |-> NucleiValue(rp.params[k])]
         ELSE EmptyDict, LAMBDA current :
        IF tokens = <<>> THEN [exc |-> "Exception"]
        ELSE IF conv.exc # "" THEN conv
        ELSE IF found /\ ~rp.ok THEN [exc |-> "Exception"]
        ELSE IF found /\ \E k \in DOMAIN rp.params : rp.params[k] = None
        THEN [exc |-> "Exception"]
        ELSE IF found /\ \E k \in DOMAIN current : current[k] = None
        THEN [exc |-> "Exception"]
        ELSE [exc |-> "", line |-> line, symbol |-> conv.symbol, tokens |-> tokens,
              nuclei_props |->
                IF Upper(conv.symbol) # "TV"
                THEN [k \in DOMAIN nuclei_props |->
                        Append(nuclei_props[k],
                               IF k \in DOMAIN current THEN current[k] ELSE None)]
                ELSE nuclei_props])))))))

\* _add_nuclei_props_to_params
add_nuclei_props_to_params(parameters, nuclei_props) ==
    LET set == {k \in DOMAIN nuclei_props :
                  \E i \in 1..Len(nuclei_props[k]) : nuclei_props[k][i] # None}
    IN  [k \in DOMAIN parameters \cup set |->
            IF k \in set THEN PyList(nuclei_props[k]) ELSE parameters[k]]

(***************************************************************************)
(* The ReadIso section and the checks after the last line.                 *)
(***************************************************************************)
\* the truth value of a Python value
Truthy(v) ==
    CASE v.t = "none" -> FALSE
      [] v.t = "str" -> v.s # ""
      [] v.t = "int" -> v.n # 0
      [] v.t = "float" -> v.m # 0
      [] v.t = "list" -> v.l # <<>>

\* d.get(k, None)
Get(d, k) == IF k \in DOMAIN d THEN d[k] ELSE None

\* _get_readiso_param: None, or the frequency keyword and its options in
\* lower case; 'readiso' or 'readisotopes' in freq_options is always true
get_readiso_param(parameters) ==
    LET freq      == Get(parameters, "freq")
        freq_name == IF Truthy(freq) THEN "freq" ELSE "frequency"
        options   == IF Truthy(freq) THEN freq ELSE Get(parameters, "frequency")
    IN  IF options # None
        THEN [t |-> "dict", name |-> freq_name, options |-> Lower(options.s)]
        ELSE None

\* _save_readiso_info
save_readiso_info(line, parameters) ==
    LET tokens == Split(Strip(Replace(Replace(line, "[", ""), "]", "")))
        names  == <<"temperature", "pressure", "scale">>
    IN  IF get_readiso_param(parameters) # None
        THEN [k \in DOMAIN parameters \cup {names[i] : i \in 1..3 \cap 1..Len(tokens)} |->
                IF \E i \in 1..3 \cap 1..Len(tokens) : names[i] = k
                THEN Str(tokens[CHOOSE i \in 1..3 : names[i] = k])
                ELSE parameters[k]]
        ELSE parameters

\* list.remove(x), for a list that holds x
RECURSIVE ListRemove(_, _)
ListRemove(list, x) ==
    IF Head(list) = x THEN Tail(list) ELSE <<Head(list)>> \o ListRemove(Tail(list), x)

\* _delete_readiso_param: the parameters without the readiso option, or the
\* exception of list.remove
delete_readiso_param(parameters) ==
    LET freq_param == get_readiso_param(parameters)
        iso_name   == IF Contains(freq_param.options, "readisotopes")
                      THEN "readisotopes"
                      ELSE "readiso"
        options    == SplitKeywords(freq_param.options)
        new        == Join(" ", ListRemove(options, iso_name))
    IN  IF freq_param = None THEN [exc |-> "", parameters |-> parameters]
        ELSE IF \A i \in 1..Len(options) : options[i] # iso_name
        THEN [exc |-> "Exception"]
        ELSE [exc |-> "",
              parameters |-> Put(parameters, freq_param.name,
                                 IF new = "" THEN None ELSE Str(new))]

unsupported_settings == <<"Z-matrix", "ModRedun", "AddRedun", "ReadOpt", "RdOpt">>

\* _validate_params: the parameters, with a key holding "popt" renamed to
\* "Opt" (the first such key of the dict; the inputs hold at most one), or
\* the IOError of an unsupported setting
validate_params(parameters) ==
    LET popt == {k \in DOMAIN parameters : Contains(Lower(k), "popt")}
        k0   == CHOOSE k \in popt : TRUE
    IN  IF \E i \in 1..Len(unsupported_settings), k \in DOMAIN parameters :
              /\ parameters[k].t = "str"
              /\ Contains(Lower(parameters[k].s), Lower(unsupported_settings[i]))
        THEN [exc |-> "IOError"]
        ELSE IF popt # {}
        THEN [exc |-> "", parameters |-> Put(Without(parameters, k0), "Opt", parameters[k0])]
        ELSE [exc |-> "", parameters |-> parameters]

Origin == <<Normal(0, 0), Normal(0, 0), Normal(0, 0)>>

\* ase.io.zmatrix.parse_zmatrix, which is not part of this file: one atom
\* for each line of the z-matrix, named by the first token of the line; the
\* geometry is not computed, every atom is put at the origin
parse_zmatrix(zmatrix_contents) ==
    LET lines == SplitOn(Strip(zmatrix_contents), "\n")
    IN  [symbols |-> [i \in 1..Len(lines) |-> Split(lines[i])[1]],
         positions |-> [i \in 1..Len(lines) |-> Origin]]

\* _read_zmatrix
read_zmatrix(zmatrix_contents, zmatrix_vars) ==
    LET atoms == parse_zmatrix(zmatrix_contents)
    IN  [exc |-> "", positions |-> atoms.positions, symbols |-> atoms.symbols]

\* Atoms(symbols, positions, pbc=pbc, cell=cell) of ase, which is not part of
\* this file: a KeyError for a symbol that is no chemical symbol, a
\* ValueError for positions that do not fit the symbols
Atoms(symbols, positions, pbc, cell) ==
    IF \/ Len(symbols) # Len(positions)
       \/ \E i \in 1..Len(symbols) :
            \A j \in 1..Len(chemical_symbols) : chemical_symbols[j] # symbols[i]
    THEN [exc |-> "IOError"]
    ELSE [exc |-> "", symbols |-> symbols, positions |-> positions, pbc |-> pbc,
          cell |-> cell]

(***************************************************************************)
(* parse_gaussian_input: the body of its loop over the lines of the file.  *)
(* L holds the local variables of the function; each branch gives the      *)
(* locals after it, the line as the branch leaves it (the route section is *)
(* read from it at the end of the body), whether it ends the iteration     *)
(* with continue, and the exception it raises.                             *)
(***************************************************************************)
Step(L, line) == [L |-> L, line |-> line, continue |-> FALSE, exc |-> ""]

Continue(L, line) == [L |-> L, line |-> line, continue |-> TRUE, exc |-> ""]

Raise(L, exc) == [L |-> L, line |-> "", continue |-> TRUE, exc |-> exc]

\* elif chgmult_match
ChgMultLine(L, line) ==
    Bind(Split(re_chgmult(line).group0), LAMBDA chgmult :
    Bind(int(chgmult[1]), LAMBDA charge :
    Bind(int(chgmult[2]), LAMBDA mult :
        IF charge = None \/ Len(chgmult) < 2 THEN Raise(L, "Exception")
        ELSE IF mult = None THEN Raise(L, "Exception")
        ELSE Step([L EXCEPT !.parameters = Put(Put(@, "charge", charge), "mult", mult),
                            !.atoms_section = TRUE], line))))

\* list(map(float, pos)), or None for a ValueError
Floats(pos) ==
    IF \E i \in 1..Len(pos) : float(pos[i]) = None
    THEN None
    ELSE PyList([i \in 1..Len(pos) |-> float(pos[i])])

\* StartsZmatrix with every freeze code taken for the 0 of a z-matrix line
StartsZmatrixAnyCode(pos, symbol) ==
    Len(pos) < 3 \/ (Len(pos) > 3 /\ symbol # "TV")

\* the first line that does not give three coordinates starts a z-matrix
StartsZmatrix(pos, symbol) ==
    Len(pos) < 3 \/ (pos[1] = "0" /\ symbol # "TV")

\* cell[npbc] = pos, for the row that numpy stores: pos holds three floats,
\* or the tokens of a line that started a z-matrix, which numpy converts and
\* broadcasts; None for its ValueError
CellRow(pos) ==
    Bind(IF pos.t = "tokens" THEN Floats(pos.l) ELSE pos, LAMBDA row :
        IF row = None \/ Len(pos.l) \notin {1, 3} THEN None
        ELSE IF Len(row.l) = 1 THEN PyList(<<row.l[1], row.l[1], row.l[1]>>)
        ELSE row)

\* a line of the molecule specification, before any z-matrix line
CartesianLine(L, line, symbol, tokens) ==
    Bind(Tail(tokens), LAMBDA pos0 :
    Bind(StartsZmatrix(pos0, symbol), LAMBDA zmat :
    Bind(IF zmat THEN [t |-> "tokens", l |-> pos0] ELSE Floats(pos0), LAMBDA pos :
    Bind(IF zmat
         THEN [L EXCEPT !.zmatrix_type = TRUE,
                        !.zmatrix_contents = @ \o Strip(line) \o "\n"]
         ELSE L, LAMBDA L1 :
        IF ~zmat /\ Len(pos0) > 3 THEN Raise(L, "IOError")
        ELSE IF pos = None THEN Raise(L, "IOError")
        ELSE IF Upper(symbol) = "TV"
        THEN Bind(CellRow(pos), LAMBDA row :
                IF L.npbc >= 3 \/ row = None THEN Raise(L, "Exception")
                ELSE Step([L1 EXCEPT !.pbc[L.npbc + 1] = TRUE,
                                     !.cell[L.npbc + 1] = row.l,
                                     !.npbc = @ + 1], line))
        ELSE IF ~zmat
        THEN Step([L1 EXCEPT !.symbols = Append(@, symbol),
                             !.positions = Append(@, pos.l)], line)
        ELSE Step(L1, line)))))

\* a line of the molecule specification, after the first z-matrix line
ZmatrixLine(L, line) ==
    LET line_list == Split(line)
    IN  IF Len(line_list) = 8 /\ line_list[8] = "1" THEN Raise(L, "IOError")
        ELSE Step([L EXCEPT !.zmatrix_contents = @ \o Strip(line) \o "\n"], line)

\* elif atoms_section
AtomsLine(L, line0) ==
    Bind(Replace(Replace(Before(line0, "!"), "/", " "), ",", " "), LAMBDA line :
        IF Split(line) = <<>> THEN Step(L, line)
        ELSE IF L.zmatrix_type /\ L.zmatrix_var_section
        THEN Continue([L EXCEPT !.zmatrix_vars = @ \o Strip(line) \o "\n"], line)
        ELSE IF L.zmatrix_type /\ Contains(Lower(line), "variables")
        THEN Continue([L EXCEPT !.zmatrix_var_section = TRUE], line)
        ELSE IF L.zmatrix_type /\ Contains(Lower(line), "constants")
        THEN Continue(L, line)
        ELSE Bind(save_nuclei_props(line, L.nuclei_props), LAMBDA snp :
                IF snp.exc # "" THEN Raise(L, snp.exc)
                ELSE Bind([L EXCEPT !.nuclei_props = snp.nuclei_props], LAMBDA L1 :
                     Bind(IF ~L.zmatrix_type
                          THEN CartesianLine(L1, snp.line, snp.symbol, snp.tokens)
                          ELSE ZmatrixLine(L1, snp.line), LAMBDA r :
                         IF r.exc # "" THEN r
                         ELSE Step([r.L EXCEPT !.atoms_saved = TRUE], r.line)))))

\* the lines of the ReadIso section: temperature, pressure and scale first,
\* then one mass for each atom
ReadIsoLine(L, line) ==
    Bind(Get(L.parameters, "iso"), LAMBDA iso :
        IF L.count_iso # 0 /\ iso.t # "list" THEN Raise(L, "Exception")
        ELSE Step([L EXCEPT
                     !.parameters =
                        IF L.count_iso = 0
                        THEN Put(save_readiso_info(line, @), "iso", PyList(<<>>))
                        ELSE Put(@, "iso", PyList(Append(iso.l, float(line)))),
                     !.count_iso = @ + 1], line))

\* elif atoms_saved
AfterLine(L, line0) ==
    Bind(Len(L.positions) = 0 /\ L.zmatrix_type, LAMBDA unread :
    Bind(IF unread
         THEN read_zmatrix(L.zmatrix_contents, L.zmatrix_vars)
         ELSE [exc |-> ""], LAMBDA zm :
    Bind(IF unread /\ zm.exc = ""
         THEN [L EXCEPT !.positions = zm.positions, !.symbols = zm.symbols]
         ELSE L, LAMBDA L1 :
    Bind(Split(line0), LAMBDA words :
    Bind(IF words # <<>> THEN Before(Strip(line0), "!") ELSE line0, LAMBDA line :
    Bind([L1 EXCEPT !.readiso = get_readiso_param(L1.parameters) # None], LAMBDA L2 :
    Bind(IF "basis" \in DOMAIN L2.parameters
         THEN L2.parameters["basis"]
         ELSE Str(""), LAMBDA basis :
        IF zm.exc # "" THEN Raise(L, zm.exc)
        ELSE IF words # <<>> /\ words[1] = "!" THEN Continue(L1, line0)
        ELSE IF Len(line) > 0 /\ Ch(line, 1) = "@"
        THEN Step([L2 EXCEPT !.parameters = Put(@, "basisfile", Str(line))], line)
        ELSE IF L2.readiso /\ L2.count_iso < Len(L2.symbols) + 1
        THEN ReadIsoLine(L2, line)
        ELSE IF basis.t # "str" THEN Raise(L2, "Exception")
        ELSE IF /\ Lower(basis.s) = "gen" \/ "gen" \in DOMAIN L2.parameters
                /\ Strip(line) # ""
        THEN Step([L2 EXCEPT !.basis_set = @ \o line \o "\n"], line)
        ELSE Step(L2, line))))))))

\* elif output_type_match and not route_section
OutputTypeLine(L, line) ==
    LET m == re_output_type(line)
    IN  Step([L EXCEPT !.route_section = TRUE,
                       !.parameters = Put(@, "output_type", Str(m.group1))],
             StripChars(line, Chars(m.group0)))

\* the branch of the loop body that the line takes
Branch(L, line) ==
    IF line = "\n" /\ ~L.readiso
    THEN Step([L EXCEPT !.route_section = FALSE, !.atoms_section = FALSE], line)
    ELSE IF re_link0(line).matched
    THEN Step([L EXCEPT !.parameters = save_link0_param(re_link0(line), @)], line)
    ELSE IF re_output_type(line).matched /\ ~L.route_section
    THEN OutputTypeLine(L, line)
    ELSE IF re_chgmult(line).matched THEN ChgMultLine(L, line)
    ELSE IF L.atoms_section THEN AtomsLine(L, line)
    ELSE IF L.atoms_saved THEN AfterLine(L, line)
    ELSE Step(L, line)

\* one iteration of "for line in fd": the locals after it, and the exception
LoopBody(L, line) ==
    Bind(Branch(L, line), LAMBDA b :
        IF b.exc # "" THEN [L |-> L, exc |-> b.exc]
        ELSE IF b.continue \/ ~b.L.route_section THEN [L |-> b.L, exc |-> ""]
        ELSE Bind(save_route_params(b.line, b.L.parameters), LAMBDA rp :
                IF ~rp.ok THEN [L |-> L, exc |-> "Exception"]
                ELSE [L |-> [b.L EXCEPT !.parameters = rp.params], exc |-> ""]))

\* the local variables before the first line
InitialLocals ==
    [parameters |-> EmptyDict, route_section |-> FALSE, atoms_section |-> FALSE,
     atoms_saved |-> FALSE, readiso |-> FALSE, count_iso |-> 0,
     nuclei_props |-> [k \in {_nuclei_prop_array_names[i] : i \in 1..7} |-> <<>>],
     symbols |-> <<>>, positions |-> <<>>,
     pbc |-> <<FALSE, FALSE, FALSE>>, cell |-> <<Origin, Origin, Origin>>, npbc |-> 0,
     zmatrix_type |-> FALSE, zmatrix_contents |-> "", zmatrix_var_section |-> FALSE,
     zmatrix_vars |-> "", basis_set |-> ""]

\* parameters['iso'] made as long as symbols
FitIso(iso, n) ==
    [i \in 1..n |-> IF i <= Len(iso) THEN iso[i] ELSE None]

\* what follows the loop: the GaussianConfiguration returned, or the exception
AfterLoop(L) ==
    Bind(validate_params(L.parameters), LAMBDA v :
        IF v.exc # "" THEN [exc |-> v.exc]
        ELSE
    Bind(IF L.readiso
         THEN delete_readiso_param(v.parameters)
         ELSE [exc |-> "", parameters |-> v.parameters], LAMBDA d :
        IF d.exc # "" THEN [exc |-> d.exc]
        ELSE IF L.readiso /\ Get(d.parameters, "iso").t # "list"
        THEN [exc |-> "Exception"]
        ELSE
    Bind(IF L.readiso
         THEN Put(d.parameters, "iso",
                  PyList(FitIso(d.parameters["iso"].l, Len(L.symbols))))
         ELSE d.parameters, LAMBDA p1 :
    Bind(IF L.basis_set # ""
         THEN Without(Put(Put(p1, "basis_set", Str(L.basis_set)),
                          "basis", Str("gen")), "gen")
         ELSE p1, LAMBDA p2 :
    Bind(Atoms(L.symbols, L.positions, L.pbc, L.cell), LAMBDA atoms :
        IF atoms.exc # "" THEN [exc |-> atoms.exc]
        ELSE [exc |-> "", atoms |-> atoms,
              parameters |-> add_nuclei_props_to_params(p2, L.nuclei_props)])))))

\* parse_gaussian_input on a whole file
RECURSIVE ParseLines(_, _)
ParseLines(L, lines) ==
    LET r == LoopBody(L, Head(lines))
    IN  IF lines = <<>> THEN AfterLoop(L)
        ELSE IF r.exc # "" THEN [exc |-> r.exc]
        ELSE ParseLines(r.L, Tail(lines))

parse_gaussian_input(lines) == ParseLines(InitialLocals, lines)

(***************************************************************************)
(* write_gaussian_in.  The keyword arguments params are a sequence of      *)
(* <<key, value>> pairs with distinct keys, in the order they were passed. *)
(***************************************************************************)
HasKey(params, k) == \E i \in 1..Len(params) : params[i][1] = k

\* params.pop(k, None): the value, and the params that are left
Value(params, k) ==
    IF HasKey(params, k)
    THEN params[CHOOSE i \in 1..Len(params) : params[i][1] = k][2]
    ELSE None

RECURSIVE Pop(_, _)
Pop(params, k) ==
    IF params = <<>> THEN <<>>
    ELSE IF Head(params)[1] = k THEN Tail(params)
    ELSE <<Head(params)>> \o Pop(Tail(params), k)

RECURSIVE PopAll(_, _)
PopAll(params, keys) ==
    IF keys = <<>> THEN params ELSE PopAll(Pop(params, Head(keys)), Tail(keys))

\* str(n), for a natural number
RECURSIVE NatStr(_)
NatStr(n) ==
    IF n < 10 THEN Ch(Digits, n + 1) ELSE NatStr(n \div 10) \o Ch(Digits, (n % 10) + 1)

IntStr(n) == IF n < 0 THEN "-" \o NatStr(0 - n) ELSE NatStr(n)

RECURSIVE Power10(_)
Power10(k) == IF k = 0 THEN 1 ELSE 10 * Power10(k - 1)

RECURSIVE Pad(_, _)
Pad(c, n) == IF n <= 0 THEN "" ELSE c \o Pad(c, n - 1)

\* the digits of the fraction of a float with at least k places, after the
\* point
Fraction(x, k) ==
    LET a == IF x.m < 0 THEN 0 - x.m ELSE x.m
        f == NatStr(a % Power10(x.places))
    IN  IF x.places = 0 THEN Pad("0", k)
        ELSE Pad("0", x.places - Len(f)) \o f \o Pad("0", k - x.places)

Whole(x) ==
    LET a == IF x.m < 0 THEN 0 - x.m ELSE x.m
    IN  (IF x.m < 0 THEN "-" ELSE "") \o NatStr(a \div Power10(x.places))

\* str(x), for a float
FloatStr(x) == Whole(x) \o "." \o Fraction(x, 1)

Precision == 10

Width == 20

SymbolWidth == 10

\* '{:20.10f}'.format(x), for a float of at most nine places
FormatF(x) ==
    LET t == Whole(x) \o "." \o Fraction(x, Precision)
    IN  Pad(" ", Width - Len(t)) \o t

\* '{:<10s}'.format(s)
FormatS(s) == s \o Pad(" ", SymbolWidth - Len(s))

\* '{}'.format(v)
PyStr(v) ==
    CASE v.t = "none" -> "None"
      [] v.t = "str" -> v.s
      [] v.t = "int" -> IntStr(v.n)
      [] v.t = "float" -> FloatStr(v)
      [] v.t = "list" ->
           "[" \o Join(", ", [i \in 1..Len(v.l) |-> "'" \o v.l[i] \o "'"]) \o "]"

\* a falsey value, or a str that is the key: written as a bare keyword
Bare(key, val) ==
    ~Truthy(val) \/ (val.t = "str" /\ Lower(key) = Lower(val.s))

_link0_keys ==
    <<"mem", "chk", "oldchk", "schk", "rwf", "oldmatrix", "oldrawmatrix", "int",
      "d2e", "save", "nosave", "errorsave", "cpu", "nprocshared", "gpucpu",
      "lindaworkers", "usessh", "ssh", "debuglinda">>

_link0_special == <<"kjob", "subst">>

_xc_to_method ==
    [xc \in {"pbe", "pbe0", "hse06", "hse03", "lda", "tpss", "revtpss"} |->
        CASE xc = "pbe" -> "pbepbe"
          [] xc = "pbe0" -> "pbe1pbe"
          [] xc = "hse06" -> "hseh1pbe"
          [] xc = "hse03" -> "ohse2pbe"
          [] xc = "lda" -> "svwn"
          [] xc = "tpss" -> "tpsstpss"
          [] xc = "revtpss" -> "revtpssrevtpss"]

\* OutputType with the test for terse output in upper case left out
OutputTypeLowerCaseOnly(params) ==
    LET output_type == "#" \o (IF HasKey(params, "output_type")
                               THEN PyStr(Value(params, "output_type"))
                               ELSE "P")
    IN  IF output_type = "#" \/ HasChar(output_type, "t")
        THEN "#P"
        ELSE output_type

\* output_type: '#' and the value given, or '#P' for none and for terse
OutputType(params) ==
    LET output_type == "#" \o (IF HasKey(params, "output_type")
                               THEN PyStr(Value(params, "output_type"))
                               ELSE "P")
    IN  IF output_type = "#" \/ HasChar(Lower(output_type), "t")
        THEN "#P"
        ELSE output_type

\* the link 0 lines, for the keys of _link0_keys and of _link0_special
RECURSIVE Link0Lines(_, _)
Link0Lines(params, keys) ==
    LET key == Head(keys)
        val == Value(params, key)
    IN  IF keys = <<>> THEN <<>>
        ELSE IF ~HasKey(params, key) THEN Link0Lines(params, Tail(keys))
        ELSE <<IF Bare(key, val) THEN "%" \o key ELSE "%" \o key \o "=" \o PyStr(val)>>
             \o Link0Lines(params, Tail(keys))

RECURSIVE Link0SpecialLines(_, _)
Link0SpecialLines(params, keys) ==
    LET key == Head(keys)
        val == Value(params, key)
    IN  IF keys = <<>> THEN <<>>
        ELSE IF ~HasKey(params, key) THEN Link0SpecialLines(params, Tail(keys))
        ELSE <<"%" \o key \o " L"
                 \o (IF val.t = "list" THEN Join(" ", val.l) ELSE PyStr(val))>>
             \o Link0SpecialLines(params, Tail(keys))

\* the first line of the route section
RouteLine(output_type, method, basis, fitting_basis) ==
    IF Truthy(basis) /\ Truthy(method) /\ Truthy(fitting_basis)
    THEN output_type \o " " \o PyStr(method) \o "/" \o PyStr(basis) \o "/"
         \o PyStr(fitting_basis) \o " " \o ase_gen_comment
    ELSE IF Truthy(basis) /\ Truthy(method)
    THEN output_type \o " " \o PyStr(method) \o "/" \o PyStr(basis) \o " "
         \o ase_gen_comment
    ELSE output_type \o (IF method # None THEN " " \o PyStr(method) ELSE "")
                     \o (IF basis # None THEN " " \o PyStr(basis) ELSE "")

\* the route keywords of the params that are left
KeywordLines(params) ==
    [i \in 1..Len(params) |->
        LET key == params[i][1]
            val == params[i][2]
        IN  IF Bare(key, val) THEN key
            ELSE IF val.t = "list" THEN key \o "(" \o Join(",", val.l) \o ")"
            ELSE key \o "(" \o PyStr(val) \o ")"]

\* ForceLines with the test of the requested properties left out
ForceLinesAlways(properties, params) ==
    IF ~HasKey(params, "force") THEN <<"force">> ELSE <<>>

\* 'force' is added when forces are requested and params do not hold it
ForceLines(properties, params) ==
    IF "forces" \in properties /\ ~HasKey(params, "force") THEN <<"force">> ELSE <<>>

\* ase.data.atomic_masses_iupac2016, for the first elements of
\* chemical_symbols
atomic_masses_iupac2016 ==
    <<Normal(1, 0), Normal(1008, 3), Normal(4002602, 6), Normal(694, 2),
      Normal(90121831, 7), Normal(1081, 2), Normal(12011, 3), Normal(14007, 3),
      Normal(15999, 3)>>

\* the mass ase expects of the symbol, or None
ExpectedMass(symbol) ==
    IF \E j \in 1..Len(atomic_masses_iupac2016) : chemical_symbols[j] = symbol
    THEN atomic_masses_iupac2016[CHOOSE j \in 1..Len(atomic_masses_iupac2016) :
                                    chemical_symbols[j] = symbol]
    ELSE None

\* the line of atom i: the symbol, the nuclei properties and the mass that
\* are set, and the position
AtomLine(atoms, i, nuclei_props) ==
    LET atom  == atoms.atoms[i]
        names == {j \in 1..Len(nuclei_props) :
                    /\ nuclei_props[j][2] # None
                    /\ nuclei_props[j][2].l[i] # None}
        props == [j \in 1..Len(nuclei_props) |->
                    IF j \in names
                    THEN nuclei_props[j][1] \o "=" \o PyStr(nuclei_props[j][2].l[i]) \o ", "
                    ELSE ""]
        mass_set == ExpectedMass(atom.symbol) # atom.mass
        section  == atom.symbol \o "(" \o Join("", props)
                    \o (IF mass_set THEN "iso=" \o PyStr(atom.mass) ELSE "")
    IN  FormatS(IF names # {} \/ mass_set
                THEN StripChars(section, {",", " "}) \o ")"
                ELSE StripChars(section, {"("}))
        \o FormatF(atom.position[1]) \o FormatF(atom.position[2])
        \o FormatF(atom.position[3])

\* the unit cell vectors of the periodic axes
RECURSIVE TVLines(_, _)
TVLines(atoms, i) ==
    IF i > 3 THEN <<>>
    ELSE (IF atoms.pbc[i]
          THEN <<"TV " \o FormatF(atoms.cell[i][1]) \o FormatF(atoms.cell[i][2])
                 \o FormatF(atoms.cell[i][3])>>
          ELSE <<>>) \o TVLines(atoms, i + 1)

\* '{:.0f}'.format(v), for an int or a float: round half to even
Format0f(v) ==
    LET a    == IF v.m < 0 THEN 0 - v.m ELSE v.m
        q    == a \div Power10(v.places)
        r    == a % Power10(v.places)
        half == 5 * Power10(v.places - 1)
        up   == v.places > 0 /\ (r > half \/ (r = half /\ q % 2 = 1))
    IN  IF v.t = "int" THEN IntStr(v.n)
        ELSE (IF v.m < 0 THEN "-" ELSE "") \o NatStr(IF up THEN q + 1 ELSE q)

\* the files that basisfile may name, with their contents
Files == [name \in {"sto.gbs"} |-> "H 0\nS 1 1.00\n****\n"]

\* BasisLines with the basis compared as it is spelled
BasisLinesAsSpelled(basis, basisfile, basis_set) ==
    IF basisfile # None
    THEN IF Ch(basisfile.s, 1) = "@" THEN [exc |-> "", lines |-> <<basisfile.s>>]
         ELSE IF basisfile.s \in DOMAIN Files
         THEN [exc |-> "", lines |-> <<Files[basisfile.s]>>]
         ELSE [exc |-> "Exception"]
    ELSE IF basis_set # None THEN [exc |-> "", lines |-> <<basis_set.s>>]
    ELSE IF basis # None /\ basis.s = "gen" THEN [exc |-> "InputError"]
    ELSE [exc |-> "", lines |-> <<>>]

\* the lines of the basis set, or the exception raised
BasisLines(basis, basisfile, basis_set) ==
    IF basisfile # None
    THEN IF Ch(basisfile.s, 1) = "@" THEN [exc |-> "", lines |-> <<basisfile.s>>]
         ELSE IF basisfile.s \in DOMAIN Files
         THEN [exc |-> "", lines |-> <<Files[basisfile.s]>>]
         ELSE [exc |-> "Exception"]
    ELSE IF basis_set # None THEN [exc |-> "", lines |-> <<basis_set.s>>]
    ELSE IF basis # None /\ Lower(basis.s) = "gen" THEN [exc |-> "InputError"]
    ELSE [exc |-> "", lines |-> <<>>]

\* write_gaussian_in(fd, atoms, properties, **params): the text written to
\* fd, or the exception raised before anything is written
write_gaussian_in(atoms, properties, params0) ==
    LET method0   == Value(params0, "method")
        basis0    == Value(params0, "basis")
        fitting_basis == Value(params0, "fitting_basis")
        output_type   == OutputType(params0)
        basisfile == Value(params0, "basisfile")
        basis_set == Value(params0, "basis_set")
        params1   == PopAll(params0, <<"method", "basis", "fitting_basis", "output_type",
                                       "basisfile", "basis_set">>)
        basis     == IF basis0 = None /\ (basisfile # None \/ basis_set # None)
                     THEN Str("gen")
                     ELSE basis0
        xc        == IF method0 = None THEN Value(params1, "xc") ELSE None
        params2   == IF method0 = None THEN Pop(params1, "xc") ELSE params1
        method    == IF xc # None
                     THEN IF Lower(xc.s) \in DOMAIN _xc_to_method
                          THEN Str(_xc_to_method[Lower(xc.s)])
                          ELSE xc
                     ELSE method0
        charge0   == Value(params2, "charge")
        charge    == IF charge0 = None THEN atoms.charges ELSE charge0
        mult0     == Value(params2, "mult")
        mult      == IF mult0 = None THEN PyInt(atoms.magmoms.n + 1) ELSE mult0
        extra     == Value(params2, "extra")
        ioplist   == Value(params2, "ioplist")
        addsec    == Value(params2, "addsec")
        nuclei_props == [i \in 1..6 |-> <<_nuclei_prop_array_names[i],
                                           Value(params2, _nuclei_prop_array_names[i])>>]
        params3   == PopAll(params2, <<"charge", "mult", "extra", "ioplist", "addsec">>
                                     \o _nuclei_prop_array_names)
        params    == PopAll(params3, _link0_keys \o _link0_special)
        basislines == BasisLines(basis, basisfile, basis_set)
        out ==
            Link0Lines(params3, _link0_keys)
            \o Link0SpecialLines(params3, _link0_special)
            \o <<RouteLine(output_type, method, basis, fitting_basis)>>
            \o KeywordLines(params)
            \o (IF ioplist # None THEN <<"IOP(" \o Join(", ", ioplist.l) \o ")">> ELSE <<>>)
            \o (IF extra # None THEN <<extra.s>> ELSE <<>>)
            \o ForceLines(properties, params)
            \o <<"", "Gaussian input prepared by ASE", "",
                 Format0f(charge) \o " " \o Format0f(mult)>>
            \o [i \in 1..Len(atoms.atoms) |-> AtomLine(atoms, i, nuclei_props)]
            \o TVLines(atoms, 1)
            \o <<"">>
            \o basislines.lines
            \o (IF addsec = None THEN <<>>
                ELSE IF addsec.t = "str" THEN <<"", addsec.s>>
                ELSE <<"">> \o addsec.l)
            \o <<"", "">>
    IN  IF basislines.exc # "" THEN [exc |-> basislines.exc]
        ELSE [exc |-> "", text |-> Join("\n", out)]

\* the lines that "for line in fd" gives of a text, each with its newline
RECURSIVE Lines(_)
Lines(text) ==
    LET n == RunNotIn(text, 1, {"\n"})
    IN  IF text = "" THEN <<>>
        ELSE IF n = Len(text) THEN <<text>>
        ELSE <<SubSeq(text, 1, n + 1)>> \o Lines(From(text, n + 2))

\* read_gaussian_in of the text that write_gaussian_in has written
ReadBack(text) == parse_gaussian_input(Lines(text))

(***************************************************************************)
(* The state.  Two uses of the file are modelled: parse_gaussian_input on  *)
(* an input file that is given (Spec), and write_gaussian_in followed by   *)
(* parse_gaussian_input on the text it wrote (SpecRT).                     *)
(***************************************************************************)
VARIABLES
    pc,       \* "idle", "written" (write_gaussian_in has returned), "reading"
              \* (in the loop of parse_gaussian_input), "returned" or "raised"
    fd,       \* the lines of the written text that are not read yet
    locals,   \* the local variables of parse_gaussian_input
    result,   \* the GaussianConfiguration returned: its atoms and parameters
    exc,      \* the exception raised, "" for none
    call,     \* the arguments of write_gaussian_in, None before the call
    text,     \* the text that write_gaussian_in wrote to fd
    writes,   \* the calls of fd.write that write_gaussian_in has made
    section,  \* the section of the given input file that the next line is of
    input     \* the lines of the given input file read so far, by section

vars == <<pc, fd, locals, result, exc, call, text, writes, section, input>>

\* the lines after the charge and multiplicity that a given file may hold
MaxLines == 3

\* the route sections of the given files, without and with a ReadIso option
PlainRouteGiven == {"#P hf/sto\n"}

ReadIsoRouteGiven ==
    {"# freq=ReadIso hf/sto\n", "#N b3lyp freq(Anharmonic,ReadIsotopes)\n"}

RouteGiven == PlainRouteGiven \cup ReadIsoRouteGiven

\* the charge and multiplicity lines of the given files
ChgMultGiven == {"0 1\n", "0,1\n", " -1, 2\n", "+1   3 \n"}

\* the lines of the molecule specification: Cartesian coordinates, with a
\* mass, with a freeze code, a cell vector, and the lines of a z-matrix
CartesianGiven == {"H 0.0 0.0 1.5\n", "O 0 0 0\n", "H(iso=2) -0.5 1 0\n"}

FreezeGiven == {"C -1 0.0 0.0 0.0\n", "C 0 0.0 0.0 0.0\n"}

CellGiven == {"TV 0 5.0 0.0\n"}

ZmatrixGiven == {"C\n", "H 1 1.0\n"}

MoleculeGiven == CartesianGiven \cup FreezeGiven \cup CellGiven \cup ZmatrixGiven

\* the lines after the molecule specification: the temperature, pressure
\* and scale of a ReadIso section, masses, and other text
ReadIsoGiven == {"300 1.0 1.0\n", "300 1\n"}

MassGiven == {"3.5\n", "x\n"}

AfterGiven == ReadIsoGiven \cup MassGiven \cup {"\n"}

NoInput == [route |-> "", chgmult |-> "", molecule |-> <<>>, after |-> <<>>]

Init ==
    /\ pc = "reading"
    /\ fd = <<>>
    /\ locals = InitialLocals
    /\ result = None
    /\ exc = ""
    /\ call = None
    /\ text = ""
    /\ writes = 0
    /\ section = "route"
    /\ input = NoInput

\* the lines that the given file may hold next, with the section after each
GivenNext ==
    CASE section = "route" ->
           {[line |-> l, section |-> "blank", input |-> [input EXCEPT !.route = l]] :
              l \in RouteGiven}
      [] section = "blank" ->
           {[line |-> "\n", section |-> "title", input |-> input]}
      [] section = "title" ->
           {[line |-> "Title Card Required\n", section |-> "blank2", input |-> input]}
      [] section = "blank2" ->
           {[line |-> "\n", section |-> "chgmult", input |-> input]}
      [] section = "chgmult" ->
           {[line |-> l, section |-> "molecule", input |-> [input EXCEPT !.chgmult = l]] :
              l \in ChgMultGiven}
      [] section = "molecule" ->
           {[line |-> l, section |-> "molecule",
             input |-> [input EXCEPT !.molecule = Append(@, l)]] : l \in MoleculeGiven}
           \cup {[line |-> "\n", section |-> "after", input |-> input]}
      [] section = "after" ->
           {[line |-> l, section |-> "after",
             input |-> [input EXCEPT !.after = Append(@, l)]] : l \in AfterGiven}

\* one iteration of the loop of parse_gaussian_input
Iterate(line) ==
    \E r \in {LoopBody(locals, line)} :
        /\ locals' = r.L
        /\ exc' = r.exc
        /\ pc' = IF r.exc = "" THEN "reading" ELSE "raised"
        /\ result' = result

\* "for line in fd", on a given file: the next line is any that the file may
\* hold there
ReadGivenLine ==
    /\ pc = "reading"
    /\ call = None
    /\ Len(input.molecule) + Len(input.after) < MaxLines
    /\ \E g \in GivenNext :
         /\ Iterate(g.line)
         /\ section' = g.section
         /\ input' = g.input
    /\ UNCHANGED <<fd, call, text, writes>>

\* "for line in fd", on the text that was written
ReadLine ==
    /\ pc = "reading"
    /\ call # None
    /\ fd # <<>>
    /\ Iterate(Head(fd))
    /\ fd' = Tail(fd)
    /\ UNCHANGED <<call, text, writes, section, input>>

\* the file has no more lines: what follows the loop
EndOfFile ==
    /\ pc = "reading"
    /\ IF call = None THEN section \in {"molecule", "after"} ELSE fd = <<>>
    /\ \E r \in {AfterLoop(locals)} :
           /\ exc' = r.exc
           /\ pc' = IF r.exc = "" THEN "returned" ELSE "raised"
           /\ result' = IF r.exc = ""
                        THEN [atoms |-> r.atoms, parameters |-> r.parameters]
                        ELSE None
    /\ UNCHANGED <<fd, locals, call, text, writes, section, input>>

Next == ReadGivenLine \/ EndOfFile

Spec == Init /\ [][Next]_vars

(***************************************************************************)
(* The calls of write_gaussian_in whose text is read back.                 *)
(***************************************************************************)
\* the atoms that a written molecule may hold
MaxAtoms == 2

\* a water molecule, with the masses that ase gives its atoms
AtomsGiven ==
    <<[symbol |-> "O", position |-> <<Normal(0, 0), Normal(0, 0), Normal(1193, 4)>>,
       mass |-> Normal(15999, 3)],
      [symbol |-> "H", position |-> <<Normal(0, 0), Normal(7632, 4), Normal(-4770, 4)>>,
       mass |-> Normal(1008, 3)],
      [symbol |-> "H", position |-> <<Normal(0, 0), Normal(-7632, 4), Normal(-4770, 4)>>,
       mass |-> Normal(1008, 3)]>>

MoleculesWritten ==
    {[atoms |-> SubSeq(AtomsGiven, 1, n), pbc |-> <<FALSE, FALSE, FALSE>>,
      cell |-> <<Origin, Origin, Origin>>, charges |-> PyInt(0), magmoms |-> PyInt(0)] :
        n \in 1..MaxAtoms}

PropertiesGiven == {{"energy"}, {"forces"}, {"energy", "forces"}}

\* the keyword arguments with one key, for each of the values
Keyword(key, values) == {<<<<key, v>>>> : v \in values}

MethodGiven == Keyword("method", {Str("hf"), Str("PBE")})

BasisGiven == Keyword("basis", {Str("6-31G"), Str("sto-3g"), Str("gen")})

FittingBasisGiven == {<<>>} \cup Keyword("fitting_basis", {Str("W06")})

OutputTypeGiven ==
    {<<>>} \cup Keyword("output_type", {Str("P"), Str("N"), Str("T"), Str("t"), Str("")})

Link0Given ==
    {<<>>} \cup Keyword("mem", {Str("1GB")}) \cup Keyword("chk", {Str("a.chk")})
           \cup Keyword("save", {None}) \cup Keyword("kjob", {Str("301")})

RouteKeywordsGiven ==
    {<<>>} \cup Keyword("force", {None}) \cup Keyword("opt", {Str("tight")})
           \cup Keyword("extra", {Str("force")})

ParamsGiven ==
    {m \o b \o f \o o \o l \o k :
        m \in MethodGiven, b \in BasisGiven, f \in FittingBasisGiven,
        o \in OutputTypeGiven, l \in Link0Given, k \in RouteKeywordsGiven}

\* basis 'gen' in any letter case, alone, with a basis_set, and with the
\* name of a basisfile
BasisSetGiven ==
    {<<>>} \cup Keyword("basis_set", {Str("H 0\nS 1 1.00\n****")})
           \cup Keyword("basisfile", {Str("@sto.gbs")})

GenParamsGiven ==
    {<<<<"method", Str("hf")>>>> \o b \o s :
        b \in Keyword("basis", {Str("gen"), Str("Gen"), Str("GEN")}),
        s \in BasisSetGiven}

\* a cell, and the molecules that are periodic along some of its axes
CellWritten ==
    <<<<Normal(5, 0), Normal(0, 0), Normal(0, 0)>>,
      <<Normal(0, 0), Normal(6, 0), Normal(0, 0)>>,
      <<Normal(0, 0), Normal(5, 1), Normal(75, 1)>>>>

PeriodicWritten ==
    {[atoms |-> SubSeq(AtomsGiven, 1, n), pbc |-> pbc, cell |-> CellWritten,
      charges |-> PyInt(0), magmoms |-> PyInt(0)] :
        n \in 1..MaxAtoms, pbc \in [1..3 -> BOOLEAN] \ {<<FALSE, FALSE, FALSE>>}}

\* the calls of write_gaussian_in
CallsGiven ==
    {[atoms |-> a, properties |-> p, params |-> k] :
        a \in MoleculesWritten, p \in PropertiesGiven, k \in ParamsGiven}
    \cup {[atoms |-> a, properties |-> {"energy"}, params |-> k] :
            a \in MoleculesWritten, k \in GenParamsGiven}
    \cup {[atoms |-> a, properties |-> {"energy"}, params |-> k] :
            a \in PeriodicWritten,
            k \in {<<<<"method", Str("hf")>>, <<"basis", Str("6-31G")>>>>}}

InitRT ==
    /\ pc = "idle"
    /\ fd = <<>>
    /\ locals = InitialLocals
    /\ result = None
    /\ exc = ""
    /\ call = None
    /\ text = ""
    /\ writes = 0
    /\ section = "route"
    /\ input = NoInput

\* write_gaussian_in(fd, atoms, properties, **params)
Write ==
    /\ pc = "idle"
    /\ \E c \in CallsGiven :
         \E w \in {write_gaussian_in(c.atoms, c.properties, c.params)} :
            /\ call' = c
            /\ exc' = w.exc
            /\ pc' = IF w.exc = "" THEN "written" ELSE "raised"
            /\ text' = IF w.exc = "" THEN w.text ELSE ""
            /\ writes' = IF w.exc = "" THEN writes + 1 ELSE writes
    /\ UNCHANGED <<fd, locals, result, section, input>>

\* read_gaussian_in(fd), on the file that was written: the loop starts
ReadWritten ==
    /\ pc = "written"
    /\ pc' = "reading"
    /\ fd' = Lines(text)
    /\ UNCHANGED <<locals, result, exc, call, text, writes, section, input>>

NextRT == Write \/ ReadWritten \/ ReadLine \/ EndOfFile

SpecRT == InitRT /\ [][NextRT]_vars

(***************************************************************************)
(* What the claims speak of.                                               *)
(***************************************************************************)
\* the text was written and read back, and a GaussianConfiguration returned
ReadBackReturned == pc = "returned" /\ call # None

\* the given file was read to its end, and a GaussianConfiguration returned
GivenReturned == pc = "returned" /\ call = None

\* the route section of the written text: the lines from the first one that
\* starts with '#' to the blank line after it
RECURSIVE UpToBlank(_)
UpToBlank(lines) ==
    IF lines = <<>> \/ Head(lines) = "\n" THEN <<>>
    ELSE <<Head(lines)>> \o UpToBlank(Tail(lines))

RECURSIVE FromRoute(_)
FromRoute(lines) ==
    IF lines = <<>> \/ Ch(Head(lines), 1) = "#" THEN lines ELSE FromRoute(Tail(lines))

RouteWritten == UpToBlank(FromRoute(Lines(text)))

\* the output_type that the call gave, 'P' when it gave none
OutputTypeGivenTo(params) ==
    IF HasKey(params, "output_type") THEN PyStr(Value(params, "output_type")) ELSE "P"

\* the route section written holds the keyword force
ForceWritten ==
    \E i \in 1..Len(RouteWritten) :
        \/ Lower(Strip(RouteWritten[i])) = "force"
        \/ StartsWith(Lower(Strip(RouteWritten[i])), "force(")

\* the keys of the Link 0 commands
Link0KeysGiven == {(_link0_keys \o _link0_special)[i] :
                      i \in 1..Len(_link0_keys \o _link0_special)}

\* the symbol and the coordinates that a given Cartesian line spells
CartesianSpelled ==
    [l \in CartesianGiven |->
        CASE l = "H 0.0 0.0 1.5\n" ->
               [symbol |-> "H", position |-> <<Normal(0, 0), Normal(0, 0), Normal(15, 1)>>]
          [] l = "O 0 0 0\n" ->
               [symbol |-> "O", position |-> <<Normal(0, 0), Normal(0, 0), Normal(0, 0)>>]
          [] l = "H(iso=2) -0.5 1 0\n" ->
               [symbol |-> "H", position |-> <<Normal(-5, 1), Normal(1, 0), Normal(0, 0)>>]]

\* the charge and the multiplicity that a given line spells
ChgMultSpelled ==
    [l \in ChgMultGiven |->
        CASE l = "0 1\n" -> <<0, 1>>
          [] l = "0,1\n" -> <<0, 1>>
          [] l = " -1, 2\n" -> <<-1, 2>>
          [] l = "+1   3 \n" -> <<1, 3>>]

\* the mass that a line of a ReadIso section gives its atom: the number it
\* spells, None for any other line
MassSpelled(line) == IF line = "3.5\n" THEN Normal(35, 1) ELSE None

\* the atom lines among the given lines of a molecule specification
AtomLinesOf(molecule) == SelectSeq(molecule, LAMBDA l : l \in CartesianGiven)

CellLinesOf(molecule) == SelectSeq(molecule, LAMBDA l : l \in CellGiven)

\* every line of the molecule specification is one of the lines
Only(molecule, lines) == \A i \in 1..Len(molecule) : molecule[i] \in lines

\* the given molecule specification is a z-matrix
ZmatrixMolecule ==
    input.molecule \in {<<"C\n">>, <<"C\n", "H 1 1.0\n">>}

\* the freeze code of a line: the token after the label
FreezeCode(line) == Split(line)[2]

\* the lines of a molecule specification with plain atoms only, and a
\* ReadIso section after it
ReadIsoInput ==
    /\ call = None
    /\ input.route \in ReadIsoRouteGiven
    /\ input.molecule # <<>>
    /\ Only(input.molecule, {"H 0.0 0.0 1.5\n"})
    /\ input.after # <<>>
    /\ Head(input.after) \in ReadIsoGiven

\* what is left of the freq options of the given route without ReadIso
FreqLeft(route) ==
    IF route = "#N b3lyp freq(Anharmonic,ReadIsotopes)\n" THEN Str("anharmonic") ELSE None

\* the params give the basis 'gen', and neither a basisfile nor a basis_set
GenAlone(params) ==
    /\ Value(params, "basis") # None
    /\ Lower(Value(params, "basis").s) = "gen"
    /\ ~HasKey(params, "basisfile")
    /\ ~HasKey(params, "basis_set")

\* the lines after the first blank line
RECURSIVE AfterBlank(_)
AfterBlank(lines) ==
    IF lines = <<>> THEN <<>>
    ELSE IF Head(lines) = "\n" THEN Tail(lines)
    ELSE AfterBlank(Tail(lines))

\* the molecule specification of the written text: the lines from the one
\* after the charge and multiplicity to the blank line
MoleculeWritten == Tail(UpToBlank(AfterBlank(AfterBlank(FromRoute(Lines(text))))))

\* the periodic axes of the atoms, in their order
PeriodicAxes(atoms) == SelectSeq(<<1, 2, 3>>, LAMBDA i : atoms.pbc[i])

(***************************************************************************)
(* The claims.                                                             *)
(***************************************************************************)
\* C1: the method, the basis and, when given, the fitting_basis that were
\* passed to write_gaussian_in are the 'method', 'basis' and 'fitting_basis'
\* of the parameters that parse_gaussian_input gives of the written text
C1_MethodBasisRoundTrip ==
    ReadBackReturned =>
        /\ Get(result.parameters, "method") = Value(call.params, "method")
        /\ Get(result.parameters, "basis") = Value(call.params, "basis")
        /\ HasKey(call.params, "fitting_basis") =>
             Get(result.parameters, "fitting_basis") = Value(call.params, "fitting_basis")

\* C2: every Link 0 command that was written is read back under its key,
\* with the value that was passed, None for a command without a value
C2_Link0RoundTrip ==
    ReadBackReturned =>
        \A k \in Link0KeysGiven :
            HasKey(call.params, k) =>
                /\ k \in DOMAIN result.parameters
                /\ result.parameters[k] =
                     IF Truthy(Value(call.params, k)) THEN Value(call.params, k) ELSE None

\* C3: a molecule specification that is a z-matrix of n lines gives n
\* atoms, whatever follows it: other lines, blank lines, or the end of file
C3_ZmatrixAtoms ==
    GivenReturned /\ ZmatrixMolecule =>
        Len(result.atoms.symbols) = Len(input.molecule)

\* C4: a line of two integers, with a comma or with white space between
\* them, is stored as the integers 'charge' and 'mult', and the molecule
\* specification starts
C4_ChargeAndMultiplicity ==
    call = None /\ section = "molecule" /\ input.molecule = <<>> =>
        /\ pc # "raised"
        /\ locals.atoms_section
        /\ Get(locals.parameters, "charge") = PyInt(ChgMultSpelled[input.chgmult][1])
        /\ Get(locals.parameters, "mult") = PyInt(ChgMultSpelled[input.chgmult][2])

\* C5: every line of a label and three numeric tokens adds an atom with the
\* symbol and the coordinates it spells, or a cell vector for the label TV
C5_CartesianLines ==
    /\ call = None /\ section = "molecule"
    /\ input.molecule # <<>>
    /\ Only(input.molecule, CartesianGiven \cup CellGiven)
    =>
        /\ pc # "raised"
        /\ locals.symbols =
             [i \in 1..Len(AtomLinesOf(input.molecule)) |->
                CartesianSpelled[AtomLinesOf(input.molecule)[i]].symbol]
        /\ locals.positions =
             [i \in 1..Len(AtomLinesOf(input.molecule)) |->
                CartesianSpelled[AtomLinesOf(input.molecule)[i]].position]
        /\ locals.npbc = Len(CellLinesOf(input.molecule))

\* C6, as the claim states it: a Cartesian line with a freeze code raises
\* IOError, for every freeze code
C6_EveryFreezeCodeRejected ==
    [][\A l \in FreezeGiven :
          /\ pc = "reading" /\ call = None /\ section = "molecule"
          /\ ~locals.zmatrix_type
          /\ input'.molecule = Append(input.molecule, l)
          => pc' = "raised" /\ exc' = "IOError"]_vars

\* C6: a line with a freeze code, read before any line has started a
\* z-matrix, raises IOError for every freeze code other than 0; with the
\* freeze code 0 the line starts a z-matrix and nothing is raised
C6_FreezeCodeRejected ==
    [][\A l \in FreezeGiven :
          /\ pc = "reading" /\ call = None /\ section = "molecule"
          /\ ~locals.zmatrix_type
          /\ input'.molecule = Append(input.molecule, l)
          => IF FreezeCode(l) # "0"
             THEN pc' = "raised" /\ exc' = "IOError"
             ELSE pc' = "reading" /\ locals'.zmatrix_type]_vars

\* a line with the freeze code -1 was read as a Cartesian line, and IOError
\* was raised
C6_Witness ==
    /\ pc = "raised" /\ exc = "IOError" /\ ~locals.zmatrix_type
    /\ input.molecule # <<>>
    /\ FreezeCode(input.molecule[Len(input.molecule)]) = "-1"

\* C7: the mass that the ReadIso section gives an atom is the one in 'iso',
\* also when the molecule specification gives the atom a mass with iso=
C7_ReadIsoMassPrecedence ==
    /\ GivenReturned
    /\ input.route \in ReadIsoRouteGiven
    /\ Only(input.molecule, {"H 0.0 0.0 1.5\n", "H(iso=2) -0.5 1 0\n"})
    /\ input.after # <<>> /\ Head(input.after) = "300 1.0 1.0\n"
    => \A i \in 1..Len(input.molecule) :
          /\ input.molecule[i] = "H(iso=2) -0.5 1 0\n"
          /\ i + 1 <= Len(input.after)
          /\ MassSpelled(input.after[i + 1]) # None
          => /\ Get(result.parameters, "iso").t = "list"
             /\ Get(result.parameters, "iso").l[i] = MassSpelled(input.after[i + 1])

\* C8: with a ReadIso option and a ReadIso section after the molecule
\* specification, 'iso' holds one entry for each atom, the mass of its line
\* or None, the ReadIso option is taken out of freq, and the other options
\* of freq are kept
C8_ReadIsoSection ==
    ReadIsoInput =>
        /\ pc # "raised"
        /\ pc = "returned" =>
             /\ Get(result.parameters, "iso") =
                  PyList([i \in 1..Len(input.molecule) |->
                            IF i + 1 <= Len(input.after)
                            THEN MassSpelled(input.after[i + 1])
                            ELSE None])
             /\ Get(result.parameters, "freq") = FreqLeft(input.route)

\* C9: the route line written starts with '#P' when the output_type given
\* is empty or holds 't' or 'T', and with '#' and the output_type given
\* otherwise; it never starts with '#T'
C9_NeverTerse ==
    pc = "written" =>
        /\ RouteWritten # <<>>
        /\ ~StartsWith(RouteWritten[1], "#T")
        /\ IF \/ OutputTypeGivenTo(call.params) = ""
              \/ HasChar(Lower(OutputTypeGivenTo(call.params)), "t")
           THEN StartsWith(RouteWritten[1], "#P ")
           ELSE StartsWith(RouteWritten[1], "#" \o OutputTypeGivenTo(call.params) \o " ")

\* the output_type 'T' was given, and the route line written starts with '#P'
C9_Witness ==
    /\ pc = "written"
    /\ OutputTypeGivenTo(call.params) = "T"
    /\ StartsWith(RouteWritten[1], "#P ")

\* C10, as the claim states it: the route section written holds the keyword
\* force if and only if forces are among the properties requested
C10_ForceIffRequested ==
    pc = "written" => (ForceWritten <=> "forces" \in call.properties)

\* C10: the route section written holds the keyword force if and only if
\* forces are among the properties requested or the params give it, as the
\* key force or as extra
C10_ForceIffRequestedOrGiven ==
    pc = "written" =>
        (ForceWritten <=> \/ "forces" \in call.properties
                          \/ HasKey(call.params, "force")
                          \/ Value(call.params, "extra") = Str("force"))

\* forces were requested, the params give no force, and the route section
\* written holds the keyword force
C10_Witness ==
    /\ pc = "written"
    /\ "forces" \in call.properties
    /\ ~HasKey(call.params, "force")
    /\ ~HasKey(call.params, "extra")
    /\ ForceWritten

\* C11: with the basis 'gen' in any letter case and neither a basisfile nor
\* a basis_set, write_gaussian_in raises InputError and has written nothing;
\* a call that returns has called fd.write once, with the text
C11_GenNeedsBasisSet ==
    call # None =>
        /\ GenAlone(call.params) =>
              pc = "raised" /\ exc = "InputError" /\ writes = 0 /\ text = ""
        /\ pc \in {"written", "reading", "returned"} => writes = 1 /\ text # ""

\* the basis 'GEN' was given alone, and InputError was raised with nothing
\* written
C11_Witness ==
    /\ pc = "raised" /\ exc = "InputError"
    /\ call # None
    /\ Value(call.params, "basis") = Str("GEN")
    /\ writes = 0

\* C12: the text written holds one TV line for each periodic axis, after
\* the lines of the atoms, and the Atoms read back of it have the pbc flags
\* that were written and, on the periodic axes, the cell vectors written
C12_CellRoundTrip ==
    ReadBackReturned =>
        /\ Len(MoleculeWritten) =
              Len(call.atoms.atoms) + Len(PeriodicAxes(call.atoms))
        /\ \A i \in 1..Len(MoleculeWritten) :
              StartsWith(MoleculeWritten[i], "TV ") <=> i > Len(call.atoms.atoms)
        /\ result.atoms.pbc = call.atoms.pbc
        /\ \A i \in 1..3 :
              call.atoms.pbc[i] => result.atoms.cell[i] = call.atoms.cell[i]

====
